---- MODULE Spec2Model ----
(***************************************************************************)
(* State-machine model of the Swipe carousel controller                    *)
(* (src/src/swipe/Swipe.tsx).  Pixel quantities are integers.  Every       *)
(* handler of the component is one action; a callback handed to doubleRaf  *)
(* is an entry of the FIFO rafQueue and runs as its own action.            *)
(***************************************************************************)
EXTENDS Integers, Sequences, FiniteSets, TLC

VARIABLES
    props,       \* the component's props: loop, vertical, touchable, width, height, autoplay
    state,       \* reactive state: rect, width, height, offset, active, swiping
    children,    \* children[i]: the offset last given to panel i by setOffset (1-based; panel 0 is children[1])
    touch,       \* useTouch(): deltaX, deltaY, offsetX, offsetY, direction
    rafQueue,    \* callbacks registered with doubleRaf and not yet run, oldest first
    timerArmed,  \* whether autoplayTimer is a pending timeout
    strayTimers, \* how many timeouts are pending that autoplayTimer does not refer to
    mounted,     \* whether onMounted has run
    fingerDown,  \* environment: a touch sequence is in progress on the track
    measured,    \* environment: root.offsetWidth / root.offsetHeight
    hidden,      \* environment: isHidden(root)
    emits,       \* observation: the 'change' notifications emitted by the last step
    released,    \* observation: the elapsed time of the touch end the last step was, if it was one
    hist         \* observation: the run in progress of two back-to-back swipeTo(i) calls

vars == <<props, state, children, touch, rafQueue, timerArmed, strayTimers, mounted,
          fingerDown, measured, hidden, emits, released, hist>>

\* an absent value (null or undefined); a present value x is <<x>>
Null == <<>>
Some(x) == <<x>>

-----------------------------------------------------------------------------
(* Bounds of the model *)

\* largest number of panels
MaxPanels == 3
\* largest number of doubleRaf callbacks pending at once
MaxPending == 2
\* swipeTo is called with the indices 1 - MaxIndex and MaxIndex: a negative
\* one and one at or past the number of panels; modulo a smaller number of
\* panels they fall in range
MaxIndex == 3

\* values of the initialSwipe prop
InitialSwipes == {-3, 0, 2}
\* values of the autoplay prop (milliseconds)
AutoplayValues == {0, 3000}
\* container measurements root.offsetWidth x root.offsetHeight
Measurements == {[width |-> 100, height |-> 40]}
\* finger positions relative to the touch start, as <<dx, dy>>
TouchPoints == {<<-60, 0>>, <<12, 0>>, <<0, -50>>}
\* the finger positions of a drag along the track of a horizontal carousel
DragPoints == {p \in TouchPoints : p[1] < 0}
\* elapsed milliseconds between touch start and touch end
Durations == {40, 1000}
\* the props that no watcher follows: loop, orientation, touchable and the
\* explicit panel size
Configs ==
    {[loop |-> TRUE,  vertical |-> FALSE, touchable |-> TRUE,  width |-> <<>>,   height |-> <<>>],
     [loop |-> FALSE, vertical |-> FALSE, touchable |-> TRUE,  width |-> <<40>>, height |-> <<>>],
     [loop |-> FALSE, vertical |-> TRUE,  touchable |-> TRUE,  width |-> <<>>,   height |-> <<>>],
     [loop |-> TRUE,  vertical |-> FALSE, touchable |-> FALSE, width |-> <<>>,   height |-> <<>>]}

Indices == {1 - MaxIndex, MaxIndex}
\* the arguments <<index, immediate>> of swipeTo: the negative index animated,
\* the index past the panels immediate
SwipeArgs == {<<i, i > 0>> : i \in Indices}

-----------------------------------------------------------------------------
(* Arithmetic helpers *)

Abs(x) == IF x < 0 THEN 0 - x ELSE x
Min(a, b) == IF a < b THEN a ELSE b
Max(a, b) == IF a > b THEN a ELSE b

\* Math.ceil(a / b) for b > 0
Ceil(a, b) == 0 - ((0 - a) \div b)
\* Math.floor(a / b) for b > 0
Floor(a, b) == a \div b
\* JavaScript a % b for b > 0: the result takes the sign of the dividend
JsRem(a, b) == IF a >= 0 THEN a % b ELSE 0 - ((0 - a) % b)

\* range(num, min, max) of ../utils
range(num, min, max) == Min(Max(num, min), max)

-----------------------------------------------------------------------------
(* Computed values (Swipe.tsx 99-128), as functions of the reactive state st *)
(* and the registered panels kids                                           *)

count(kids) == Len(kids)

size(st) == IF props.vertical THEN st.height ELSE st.width

delta(t) == IF props.vertical THEN t.deltaY ELSE t.deltaX

minOffset(st, kids) ==
    IF st.rect # Null
    THEN LET base == IF props.vertical THEN st.rect[1].height ELSE st.rect[1].width
         IN  base - size(st) * count(kids)
    ELSE 0

maxCount(st, kids) == Ceil(Abs(minOffset(st, kids)), size(st))

trackSize(st, kids) == count(kids) * size(st)

activeIndicator(st, kids) == JsRem(st.active + count(kids), count(kids))

isCorrectDirection(t) ==
    LET expect == IF props.vertical THEN "vertical" ELSE "horizontal"
    IN  t.direction = expect

-----------------------------------------------------------------------------
(* Position resolver and move (Swipe.tsx 146-220) *)

getTargetActive(st, kids, pace) ==
    IF pace # 0
    THEN IF props.loop
         THEN range(st.active + pace, -1, count(kids))
         ELSE range(st.active + pace, 0, maxCount(st, kids))
    ELSE st.active

\* getTargetOffset without the clamp of the result into [minOffset, 0]
getTargetOffsetUnclamped(st, kids, targetActive, offset) ==
    LET position == targetActive * size(st)
        currentPosition == IF ~props.loop
                           THEN Min(position, 0 - minOffset(st, kids))
                           ELSE position
    IN  offset - currentPosition

getTargetOffset(st, kids, targetActive, offset) ==
    LET position == targetActive * size(st)
        currentPosition == IF ~props.loop
                           THEN Min(position, 0 - minOffset(st, kids))
                           ELSE position
        targetOffset == offset - currentPosition
    IN  IF ~props.loop
        THEN range(targetOffset, minOffset(st, kids), 0)
        ELSE targetOffset

\* children[0].setOffset / children[count - 1].setOffset of move in loop mode
loopEdges(st, kids, targetOffset) ==
    LET n == count(kids)
        first == IF targetOffset # minOffset(st, kids)
                 THEN [kids EXCEPT ![1] = IF targetOffset < minOffset(st, kids)
                                          THEN trackSize(st, kids) ELSE 0]
                 ELSE kids
    IN  IF targetOffset # 0
        THEN [first EXCEPT ![n] = IF targetOffset > 0
                                  THEN 0 - trackSize(st, kids) ELSE 0]
        ELSE first

\* shouldEmit without the comparison of the target with the current index
shouldEmitAlways(emitChange, targetActive, active) ==
    emitChange

\* whether move emits 'change'
shouldEmit(emitChange, targetActive, active) ==
    emitChange /\ targetActive # active

\* move that returns early only when there is no panel at all
moveWithOnePanel(st, kids, pace, offset, emitChange) ==
    IF count(kids) < 1
    THEN [state |-> st, children |-> kids, emits |-> <<>>]
    ELSE LET targetActive == getTargetActive(st, kids, pace)
             targetOffset == getTargetOffset(st, kids, targetActive, offset)
             st2 == [st EXCEPT !.active = targetActive, !.offset = targetOffset]
         IN  [state    |-> st2,
              children |-> IF props.loop THEN loopEdges(st, kids, targetOffset) ELSE kids,
              emits    |-> IF shouldEmit(emitChange, targetActive, st.active)
                           THEN <<activeIndicator(st2, kids)>> ELSE <<>>]

\* move({pace, offset, emitChange}): the new state, the new panel offsets and
\* the notifications emitted
move(st, kids, pace, offset, emitChange) ==
    IF count(kids) <= 1
    THEN [state |-> st, children |-> kids, emits |-> <<>>]
    ELSE LET targetActive == getTargetActive(st, kids, pace)
             targetOffset == getTargetOffset(st, kids, targetActive, offset)
             st2 == [st EXCEPT !.active = targetActive, !.offset = targetOffset]
         IN  [state    |-> st2,
              children |-> IF props.loop THEN loopEdges(st, kids, targetOffset) ELSE kids,
              emits    |-> IF shouldEmit(emitChange, targetActive, st.active)
                           THEN <<activeIndicator(st2, kids)>> ELSE <<>>]

correctPosition(st, kids) ==
    LET s1 == [st EXCEPT !.swiping = TRUE]
    IN  IF s1.active <= -1
        THEN move(s1, kids, count(kids), 0, FALSE)
        ELSE IF s1.active >= count(kids)
        THEN move(s1, kids, 0 - count(kids), 0, FALSE)
        ELSE [state |-> s1, children |-> kids, emits |-> <<>>]

-----------------------------------------------------------------------------
(* The touch signal source, ../composables/use-touch *)

MIN_DISTANCE == 10

getDirection(x, y) ==
    IF x > y /\ x > MIN_DISTANCE THEN "horizontal"
    ELSE IF y > x /\ y > MIN_DISTANCE THEN "vertical"
    ELSE ""

\* touch.reset()
touchReset == [deltaX |-> 0, deltaY |-> 0, offsetX |-> 0, offsetY |-> 0, direction |-> ""]

\* touch.move(event), the finger being at p = <<dx, dy>> from where it started
touchMove(t, p) ==
    [deltaX |-> p[1], deltaY |-> p[2], offsetX |-> Abs(p[1]), offsetY |-> Abs(p[2]),
     direction |-> IF t.direction = "" THEN getDirection(Abs(p[1]), Abs(p[2]))
                   ELSE t.direction]

-----------------------------------------------------------------------------
(* Autoplay and initialization (Swipe.tsx 248-294) *)

\* autoplay(): whether the timer is pending afterwards
autoplay(armed, interval, kids) ==
    IF interval > 0 /\ count(kids) > 1 THEN TRUE ELSE armed

\* the pending timeouts: armed, whether the one autoplayTimer refers to is
\* pending; stray, how many others are
Timers(armed, stray) == [armed |-> armed, stray |-> stray]

\* stopAutoplay that clears nothing
stopAutoplayNever(t) == t

\* stopAutoplay(): clearTimeout(autoplayTimer)
stopAutoplay(t) == [t EXCEPT !.armed = FALSE]

\* autoplayTimer = setTimeout(...): a timeout still pending under the old
\* handle is out of reach from now on
setAutoplayTimer(t) ==
    [armed |-> TRUE, stray |-> t.stray + (IF t.armed THEN 1 ELSE 0)]

\* autoplay() that sets the new timeout without clearing the old one
autoplayTimersUncleared(t, interval, kids) ==
    IF interval > 0 /\ count(kids) > 1
    THEN setAutoplayTimer(t)
    ELSE t

\* autoplay(), on the pending timeouts t
autoplayTimers(t, interval, kids) ==
    IF interval > 0 /\ count(kids) > 1
    THEN setAutoplayTimer(stopAutoplay(t))
    ELSE t

\* the stray timeouts that initialize leaves: stopAutoplay(), then autoplay()
initializeStrays(armed, stray, kids, isHidden) ==
    IF isHidden
    THEN stray
    ELSE autoplayTimers(stopAutoplay(Timers(armed, stray)), props.autoplay, kids).stray

\* the active index initialize settles on
initialActive(kids, active) ==
    IF count(kids) # 0 THEN Min(count(kids) - 1, active) ELSE active

\* initialize that offsets the track from where it stands
initializeFromOffset(st, kids, armed, active, rect, isHidden) ==
    IF isHidden
    THEN [state |-> st, children |-> kids, timerArmed |-> armed]
    ELSE LET a  == initialActive(kids, active)
             s1 == [st EXCEPT !.rect = Some(rect), !.swiping = TRUE, !.active = a,
                              !.width  = IF props.width # Null THEN props.width[1] ELSE rect.width,
                              !.height = IF props.height # Null THEN props.height[1] ELSE rect.height]
             s2 == [s1 EXCEPT !.offset = getTargetOffset(s1, kids, a, st.offset)]
             zeroed == [i \in 1..count(kids) |-> 0]
         IN  [state |-> s2, children |-> zeroed,
              timerArmed |-> autoplay(FALSE, props.autoplay, kids)]

\* initialize(active) with the container measuring rect
initialize(st, kids, armed, active, rect, isHidden) ==
    IF isHidden
    THEN [state |-> st, children |-> kids, timerArmed |-> armed]
    ELSE LET a  == initialActive(kids, active)
             s1 == [st EXCEPT !.rect = Some(rect), !.swiping = TRUE, !.active = a,
                              !.width  = IF props.width # Null THEN props.width[1] ELSE rect.width,
                              !.height = IF props.height # Null THEN props.height[1] ELSE rect.height]
             s2 == [s1 EXCEPT !.offset = getTargetOffset(s1, kids, a, 0)]
             zeroed == [i \in 1..count(kids) |-> 0]
         IN  [state |-> s2, children |-> zeroed,
              timerArmed |-> autoplay(FALSE, props.autoplay, kids)]

-----------------------------------------------------------------------------
(* Initial state: setup() has run and the panels have registered; the       *)
(* component is not mounted yet                                             *)

InitWith(autoplays) ==
    /\ \E c \in Configs, ap \in autoplays :
          props = [loop |-> c.loop, vertical |-> c.vertical, touchable |-> c.touchable,
                   width |-> c.width, height |-> c.height, autoplay |-> ap]
    /\ state = [rect |-> Null, width |-> 0, height |-> 0, offset |-> 0,
                active |-> 0, swiping |-> FALSE]
    /\ \E n \in 0..MaxPanels : children = [i \in 1..n |-> 0]
    /\ touch = touchReset
    /\ rafQueue = <<>>
    /\ timerArmed = FALSE
    /\ strayTimers = 0
    /\ mounted = FALSE
    /\ fingerDown = FALSE
    /\ measured \in Measurements
    /\ hidden = FALSE
    /\ emits = <<>>
    /\ released = Null
    /\ hist = Null

\* autoplay is off and stays off
Init == InitWith({0})

\* the observation hist: swipeTo(index) was called (phase 1), its callback ran
\* next and left active (phase 2), swipeTo(index) was called again next
\* (phase 3) and its callback ran next (phase 4).  Every other step clears hist
Run(index, phase, active) ==
    [index |-> index, phase |-> phase, active |-> active]

\* a doubleRaf callback waiting to run
Callback(op, index, immediate) == [op |-> op, index |-> index, immediate |-> immediate]

-----------------------------------------------------------------------------
(* Lifecycle, props and environment *)

\* onMounted(initialize), the initialSwipe prop being v
Mount(v) ==
    /\ ~mounted
    /\ \E r \in {initialize(state, children, timerArmed, v, measured, hidden)} :
           /\ state' = r.state
           /\ children' = r.children
           /\ timerArmed' = r.timerArmed
    /\ strayTimers' = initializeStrays(timerArmed, strayTimers, children, hidden)
    /\ mounted' = TRUE
    /\ emits' = <<>>
    /\ hist' = Null
    /\ UNCHANGED <<props, touch, rafQueue, fingerDown, measured, hidden>>
    /\ released' = Null

\* resize(), the container measuring rect
resize(st, kids, armed, rect, isHidden) ==
    initialize(st, kids, armed, st.active, rect, isHidden)

\* resize() is called by the host, or by the window-size watcher, after the
\* container has come to measure m
Resize(m) ==
    /\ mounted
    /\ measured' = m
    /\ \E r \in {resize(state, children, timerArmed, m, hidden)} :
           /\ state' = r.state
           /\ children' = r.children
           /\ timerArmed' = r.timerArmed
    /\ strayTimers' = initializeStrays(timerArmed, strayTimers, children, hidden)
    /\ emits' = <<>>
    /\ hist' = Null
    /\ UNCHANGED <<props, touch, rafQueue, mounted, fingerDown, hidden>>
    /\ released' = Null

\* panels are added or removed: watch(count, () => initialize(state.active))
SetCount(n) ==
    /\ mounted
    /\ n # count(children)
    /\ LET kids == [i \in 1..n |-> IF i <= count(children) THEN children[i] ELSE 0]
           r == initialize(state, kids, timerArmed, state.active, measured, hidden)
       IN  /\ state' = r.state
           /\ children' = r.children
           /\ timerArmed' = r.timerArmed
           /\ strayTimers' = initializeStrays(timerArmed, strayTimers, kids, hidden)
    /\ emits' = <<>>
    /\ hist' = Null
    /\ UNCHANGED <<props, touch, rafQueue, mounted, fingerDown, measured, hidden>>
    /\ released' = Null

\* watch(() => props.initialSwipe, (value) => initialize(+value)): the prop
\* takes the new value v.  The prop's value is read nowhere else after the
\* mount, so the model does not keep it
SetInitialSwipe(v) ==
    /\ mounted
    /\ \E r \in {initialize(state, children, timerArmed, v, measured, hidden)} :
           /\ state' = r.state
           /\ children' = r.children
           /\ timerArmed' = r.timerArmed
    /\ strayTimers' = initializeStrays(timerArmed, strayTimers, children, hidden)
    /\ emits' = <<>>
    /\ hist' = Null
    /\ UNCHANGED <<props, touch, rafQueue, mounted, fingerDown, measured, hidden>>
    /\ released' = Null

\* watch(() => props.autoplay, ...)
SetAutoplay(v) ==
    /\ mounted
    /\ v # props.autoplay
    /\ props' = [props EXCEPT !.autoplay = v]
    /\ \E t \in {IF v > 0
                  THEN autoplayTimers(Timers(timerArmed, strayTimers), v, children)
                  ELSE stopAutoplay(Timers(timerArmed, strayTimers))} :
           /\ timerArmed' = t.armed
           /\ strayTimers' = t.stray
    /\ emits' = <<>>
    /\ hist' = Null
    /\ UNCHANGED <<state, children, touch, rafQueue, mounted, fingerDown, measured, hidden>>
    /\ released' = Null

\* the container becomes hidden (display: none) or visible again
SetHidden ==
    /\ mounted
    /\ hidden' = ~hidden
    /\ emits' = <<>>
    /\ hist' = Null
    /\ UNCHANGED <<props, state, children, touch, rafQueue, timerArmed, mounted,
                   fingerDown, measured, strayTimers>>
    /\ released' = Null

\* watch(usePageVisibility(), ...): the page is reported visible or hidden.
\* The report may repeat the previous one
PageVisibility(visible) ==
    /\ mounted
    /\ \E t \in {IF visible
                  THEN autoplayTimers(Timers(timerArmed, strayTimers), props.autoplay, children)
                  ELSE stopAutoplay(Timers(timerArmed, strayTimers))} :
           /\ timerArmed' = t.armed
           /\ strayTimers' = t.stray
    /\ emits' = <<>>
    /\ hist' = Null
    /\ released' = Null
    /\ UNCHANGED <<props, state, children, touch, rafQueue, mounted, fingerDown,
                   measured, hidden>>

\* onActivated(() => initialize(state.active))
Activated ==
    /\ mounted
    /\ \E r \in {initialize(state, children, timerArmed, state.active, measured, hidden)} :
           /\ state' = r.state
           /\ children' = r.children
           /\ timerArmed' = r.timerArmed
    /\ strayTimers' = initializeStrays(timerArmed, strayTimers, children, hidden)
    /\ emits' = <<>>
    /\ hist' = Null
    /\ released' = Null
    /\ UNCHANGED <<props, touch, rafQueue, mounted, fingerDown, measured, hidden>>

\* onDeactivated(stopAutoplay) and onBeforeUnmount(stopAutoplay).  Callbacks
\* and touch sequences under way are not cancelled by either
Teardown ==
    /\ mounted
    /\ \E t \in {stopAutoplay(Timers(timerArmed, strayTimers))} :
           /\ timerArmed' = t.armed
           /\ strayTimers' = t.stray
    /\ emits' = <<>>
    /\ hist' = Null
    /\ released' = Null
    /\ UNCHANGED <<props, state, children, touch, rafQueue, mounted, fingerDown,
                   measured, hidden>>

-----------------------------------------------------------------------------
(* Programmatic navigation (Swipe.tsx 222-246, 356-381) *)

\* the synchronous part of prev(), next() and swipeTo(): correctPosition(),
\* touch.reset() and the registration of cb with doubleRaf
Navigate(cb) ==
    \E c \in {correctPosition(state, children)} :
        /\ state' = c.state
        /\ children' = c.children
        /\ emits' = c.emits
        /\ touch' = touchReset
        /\ rafQueue' = Append(rafQueue, cb)

Prev ==
    /\ mounted
    /\ Len(rafQueue) < MaxPending
    /\ Navigate(Callback("prev", 0, FALSE))
    /\ hist' = Null
    /\ UNCHANGED <<props, timerArmed, mounted, fingerDown, measured, hidden, strayTimers>>
    /\ released' = Null

Next ==
    /\ mounted
    /\ Len(rafQueue) < MaxPending
    /\ Navigate(Callback("next", 0, FALSE))
    /\ hist' = Null
    /\ UNCHANGED <<props, timerArmed, mounted, fingerDown, measured, hidden, strayTimers>>
    /\ released' = Null

SwipeTo(index, immediate) ==
    /\ mounted
    /\ Len(rafQueue) < MaxPending
    /\ Navigate(Callback("swipeTo", index, immediate))
    /\ hist' = IF hist # Null /\ hist[1].phase = 2 /\ hist[1].index = index
               THEN Some([hist[1] EXCEPT !.phase = 3])
               ELSE Some(Run(index, 1, 0))
    /\ UNCHANGED <<props, timerArmed, mounted, fingerDown, measured, hidden, strayTimers>>
    /\ released' = Null

\* the callback of prev() (pace = -1) and of next() (pace = 1)
stepBy(st, kids, pace) ==
    move([st EXCEPT !.swiping = FALSE], kids, pace, 0, TRUE)

PrevStep ==
    /\ rafQueue # <<>>
    /\ Head(rafQueue).op = "prev"
    /\ \E m \in {stepBy(state, children, -1)} :
           /\ state' = m.state
           /\ children' = m.children
           /\ emits' = m.emits
    /\ rafQueue' = Tail(rafQueue)
    /\ hist' = Null
    /\ UNCHANGED <<props, touch, timerArmed, mounted, fingerDown, measured, hidden, strayTimers>>
    /\ released' = Null

NextStep ==
    /\ rafQueue # <<>>
    /\ Head(rafQueue).op \in {"next", "autoplay"}
    /\ \E m \in {stepBy(state, children, 1)} :
           /\ state' = m.state
           /\ children' = m.children
           /\ emits' = m.emits
    /\ rafQueue' = Tail(rafQueue)
    /\ hist' = Null
    /\ UNCHANGED <<props, touch, timerArmed, mounted, fingerDown, measured, hidden, strayTimers>>
    /\ released' = Null

\* targetIndex of swipeTo's callback; with no panel index % count is NaN and
\* move ignores it, which 0 stands for
targetIndex(st, kids, index) ==
    IF props.loop /\ index = count(kids)
    THEN IF st.active = 0 THEN 0 ELSE index
    ELSE IF count(kids) = 0 THEN 0 ELSE JsRem(index, count(kids))

\* the callback of swipeTo(index, {immediate})
swipeToStep(st, kids, index, immediate) ==
    LET s1 == IF immediate THEN st ELSE [st EXCEPT !.swiping = FALSE]
    IN  move(s1, kids, targetIndex(st, kids, index) - st.active, 0, TRUE)

SwipeToStep ==
    /\ rafQueue # <<>>
    /\ Head(rafQueue).op = "swipeTo"
    /\ LET cb == Head(rafQueue)
           m == swipeToStep(state, children, cb.index, cb.immediate)
       IN  /\ state' = m.state
           /\ children' = m.children
           /\ emits' = m.emits
           /\ rafQueue' = IF cb.immediate
                          THEN Append(Tail(rafQueue), Callback("endSwiping", 0, FALSE))
                          ELSE Tail(rafQueue)
           /\ hist' = IF hist # Null /\ hist[1].phase \in {1, 3}
                         /\ Len(rafQueue) = 1 /\ cb.index = hist[1].index
                      THEN Some([hist[1] EXCEPT !.phase = hist[1].phase + 1,
                                                !.active = IF hist[1].phase = 1
                                                           THEN m.state.active
                                                           ELSE hist[1].active])
                      ELSE Null
    /\ UNCHANGED <<props, touch, timerArmed, mounted, fingerDown, measured, hidden, strayTimers>>
    /\ released' = Null

\* the inner doubleRaf callback of swipeTo(index, {immediate: true})
EndSwipingStep ==
    /\ rafQueue # <<>>
    /\ Head(rafQueue).op = "endSwiping"
    /\ state' = [state EXCEPT !.swiping = FALSE]
    /\ rafQueue' = Tail(rafQueue)
    /\ emits' = <<>>
    /\ hist' = Null
    /\ UNCHANGED <<props, children, touch, timerArmed, mounted, fingerDown, measured, hidden, strayTimers>>
    /\ released' = Null

\* a pending timeout fires, the one autoplayTimer refers to or a stray one:
\* next(); autoplay().  The callback of this next() is tagged "autoplay"
TimerFire ==
    /\ Len(rafQueue) < MaxPending
    /\ \E t \in {Timers(FALSE, strayTimers) : a \in {timerArmed} \ {FALSE}}
               \cup {Timers(timerArmed, strayTimers - 1) : n \in {strayTimers} \ {0}} :
           \E u \in {autoplayTimers(t, props.autoplay, children)} :
               /\ timerArmed' = u.armed
               /\ strayTimers' = u.stray
    /\ Navigate(Callback("autoplay", 0, FALSE))
    /\ hist' = Null
    /\ UNCHANGED <<props, mounted, fingerDown, measured, hidden>>
    /\ released' = Null

-----------------------------------------------------------------------------
(* Gestures (Swipe.tsx 298-354) *)

TouchStart ==
    /\ mounted
    /\ ~fingerDown
    /\ fingerDown' = TRUE
    /\ IF ~props.touchable
       THEN /\ emits' = <<>>
            /\ UNCHANGED <<state, children, touch, timerArmed, strayTimers>>
       ELSE \E c \in {correctPosition(state, children)},
               t \in {stopAutoplay(Timers(timerArmed, strayTimers))} :
                /\ touch' = touchReset
                /\ timerArmed' = t.armed
                /\ strayTimers' = t.stray
                /\ state' = c.state
                /\ children' = c.children
                /\ emits' = c.emits
    /\ hist' = Null
    /\ UNCHANGED <<props, rafQueue, mounted, measured, hidden>>
    /\ released' = Null

TouchMove(p) ==
    /\ fingerDown
    /\ IF props.touchable /\ state.swiping
       THEN LET t == touchMove(touch, p)
                m == IF isCorrectDirection(t)
                     THEN move(state, children, 0, delta(t), FALSE)
                     ELSE [state |-> state, children |-> children, emits |-> <<>>]
            IN  /\ touch' = t
                /\ state' = m.state
                /\ children' = m.children
                /\ emits' = m.emits
       ELSE /\ emits' = <<>>
            /\ UNCHANGED <<state, children, touch>>
    /\ hist' = Null
    /\ UNCHANGED <<props, rafQueue, timerArmed, mounted, fingerDown, measured, hidden, strayTimers>>
    /\ released' = Null

\* shouldSwipe of onTouchEnd, duration milliseconds after the touch started
shouldSwipe(st, t, duration) ==
    \/ 4 * Abs(delta(t)) > duration
    \/ 2 * Abs(delta(t)) > size(st)

\* pace of a committed gesture
gesturePace(st, t) ==
    LET offset == IF props.vertical THEN t.offsetY ELSE t.offsetX
    IN  IF props.loop
        THEN IF offset > 0 THEN (IF delta(t) > 0 THEN -1 ELSE 1) ELSE 0
        ELSE IF delta(t) > 0
             THEN 0 - Ceil(delta(t), size(st))
             ELSE 0 - Floor(delta(t), size(st))

\* the move of onTouchEnd
release(st, kids, t, duration) ==
    IF shouldSwipe(st, t, duration) /\ isCorrectDirection(t)
    THEN move(st, kids, gesturePace(st, t), 0, TRUE)
    ELSE IF delta(t) # 0
    THEN move(st, kids, 0, 0, FALSE)
    ELSE [state |-> st, children |-> kids, emits |-> <<>>]

\* onTouchEnd, for the touchend or touchcancel of any finger: the handler runs
\* whether or not the touch sequence that fingerDown follows is under way (a
\* second finger lifts, a cancel follows the end).  It leaves the touch
\* accumulators as they are
TouchEnd(duration) ==
    /\ mounted
    /\ fingerDown' = FALSE
    /\ IF ~props.touchable \/ ~state.swiping
       THEN /\ emits' = <<>>
            /\ UNCHANGED <<state, children, timerArmed, strayTimers>>
       ELSE \E m \in {release(state, children, touch, duration)},
               t \in {autoplayTimers(Timers(timerArmed, strayTimers), props.autoplay, children)} :
                /\ state' = [m.state EXCEPT !.swiping = FALSE]
                /\ children' = m.children
                /\ emits' = m.emits
                /\ timerArmed' = t.armed
                /\ strayTimers' = t.stray
    /\ hist' = Null
    /\ UNCHANGED <<props, touch, rafQueue, mounted, measured, hidden>>
    /\ released' = Some(duration)

-----------------------------------------------------------------------------

\* the steps of a carousel whose autoplay prop is left alone (no step of
\* Scheduler happens), whose container stays visible (SetHidden never
\* happens) and whose initialSwipe prop takes its values in swipes
Core(swipes) ==
    \/ \E v \in swipes : Mount(v)
    \/ \E m \in Measurements : Resize(m)
    \/ \E n \in 0..MaxPanels : SetCount(n)
    \/ \E v \in swipes : SetInitialSwipe(v)
    \/ Prev
    \/ Next
    \/ \E a \in SwipeArgs : SwipeTo(a[1], a[2])
    \/ PrevStep
    \/ NextStep
    \/ SwipeToStep
    \/ EndSwipingStep
    \/ TouchStart
    \/ \E p \in TouchPoints : TouchMove(p)
    \/ \E d \in Durations : TouchEnd(d)

Spec == Init /\ [][Core(InitialSwipes)]_vars

\* the host only ever asks for an initialSwipe that is not negative
SpecValid == Init /\ [][Core(InitialSwipes \cap Nat)]_vars

\* the steps of the autoplay scheduler and of the events that stop and
\* restart it, the container staying visible
Scheduler ==
    \/ \E v \in AutoplayValues : SetAutoplay(v)
    \/ \E visible \in BOOLEAN : PageVisibility(visible)
    \/ Activated
    \/ Teardown
    \/ TimerFire

\* the steps of the carousel under autoplay: mounted with initialSwipe 0,
\* navigated with next() and swipeTo(MaxIndex), dragged to one of DragPoints
Autoplaying ==
    \/ Mount(0)
    \/ \E m \in Measurements : Resize(m)
    \/ \E n \in 0..MaxPanels : SetCount(n)
    \/ Next
    \/ \E imm \in BOOLEAN : SwipeTo(MaxIndex, imm)
    \/ NextStep
    \/ SwipeToStep
    \/ EndSwipingStep
    \/ TouchStart
    \/ \E p \in DragPoints : TouchMove(p)
    \/ \E d \in Durations : TouchEnd(d)

\* a carousel whose autoplay prop takes any of its values
SpecAutoplay ==
    InitWith(AutoplayValues) /\ [][Autoplaying \/ Scheduler]_vars

-----------------------------------------------------------------------------
(* What a step was, read off the variables it changed *)

\* the step ran the doubleRaf callback of prev(), next() or swipeTo()
StepOf(op) ==
    /\ rafQueue # <<>>
    /\ Head(rafQueue).op = op
    /\ rafQueue' # rafQueue
    /\ Len(rafQueue') <= Len(rafQueue)

NavStep == StepOf("prev") \/ StepOf("next") \/ StepOf("swipeTo")

\* the step was prev(), next() or swipeTo() itself
CallStep == Len(rafQueue') > Len(rafQueue)

TouchStartStep == ~fingerDown /\ fingerDown'
TouchMoveStep == fingerDown /\ fingerDown' /\ touch' # touch /\ rafQueue' = rafQueue
\* the step was onTouchEnd
TouchEndStep == released' # Null
\* the step was the touch end of the touch sequence under way
ReleaseStep == fingerDown /\ TouchEndStep

\* index modulo n, the residue in 0 .. n-1
Residue(index, n) == index % n

Running == mounted /\ count(children) > 1

-----------------------------------------------------------------------------
(* C1: in non-loop mode the offset after any move lies in [minOffset, 0]. *)

-----------------------------------------------------------------------------
(* C2: in loop mode with at least one panel, activeIndicator is always an   *)
(* index in [0, count).                                                     *)

\* C2 as stated: in every state of a mounted loop carousel with count >= 1,
\* 0 <= activeIndicator < count
C2_IndicatorInRange ==
    (mounted /\ props.loop /\ count(children) >= 1)
        => /\ 0 <= activeIndicator(state, children)
           /\ activeIndicator(state, children) < count(children)

-----------------------------------------------------------------------------
(* C3: change notifications *)

\* C3: a deferred navigation step or a gesture release that changes active
\* emits exactly one change notification, carrying active modulo count; no
\* other step emits one (touch moves, position corrections, releases and
\* navigation steps that leave active alone, initializations)
C3_ChangeNotification ==
    [][/\ ((NavStep \/ TouchEndStep) /\ state'.active # state.active)
            => emits' = <<Residue(state'.active, count(children'))>>
       /\ emits' # <<>>
            => /\ NavStep \/ TouchEndStep
               /\ state'.active # state.active
               /\ Len(emits') = 1]_vars

\* a navigation into the overscan slot has notified index 0
C3_Witness ==
    /\ Running /\ props.loop
    /\ emits = <<0>>
    /\ state.active = count(children)

-----------------------------------------------------------------------------
(* C4: every next() / prev() moves the active index by one *)

\* C4 as stated, in loop mode: whenever the deferred step of next() (of
\* prev()) runs with more than one panel, active modulo count goes up (down)
\* by one, offset becomes -active * size, and the step notifies the new index
C4_NextPrevAdvance ==
    [][(Running /\ props.loop /\ (StepOf("next") \/ StepOf("prev")))
         => LET n == count(children)
                by == IF StepOf("next") THEN 1 ELSE n - 1
            IN  /\ Residue(state'.active, n) = (Residue(state.active, n) + by) % n
                /\ state'.offset = 0 - state'.active * size(state')
                /\ emits' = <<Residue(state'.active, n)>>]_vars

-----------------------------------------------------------------------------
(* C5: in non-loop mode active stays within [0, maxPace] *)

\* C5 as stated: after any deferred navigation step and any gesture release
\* in non-loop mode, 0 <= active <= maxCount
C5_ActiveWithinMaxPace ==
    [][(Running /\ ~props.loop /\ (NavStep \/ TouchEndStep))
         => /\ 0 <= state'.active
            /\ state'.active <= maxCount(state', children')]_vars

-----------------------------------------------------------------------------
(* C6: swipeTo(i) twice *)

\* C6 as stated, for the index modulo count: when swipeTo(i) has run to
\* completion twice in a row with more than one panel, the second run has
\* left active modulo count as the first left it and has notified nothing
C6_SwipeToTwice ==
    (Running /\ hist # Null /\ hist[1].phase = 4)
        => /\ Residue(state.active, count(children))
                = Residue(hist[1].active, count(children))
           /\ emits = <<>>

-----------------------------------------------------------------------------
(* C7: swipeTo(index) lands on index modulo count *)

\* C7 as stated: whenever the deferred step of swipeTo(index) runs with more
\* than one panel, active modulo count becomes index modulo count, the
\* residue in 0 .. count-1
C7_SwipeToResidue ==
    [][(Running /\ StepOf("swipeTo"))
         => Residue(state'.active, count(children))
              = Residue(Head(rafQueue).index, count(children))]_vars

-----------------------------------------------------------------------------
(* C8: with at most one panel every move request is a no-op *)

\* C8: with count <= 1, a step that is next(), prev(), swipeTo(), one of their
\* deferred steps, a touch start, a touch move or a touch end leaves active,
\* offset and every panel's offset unchanged and notifies nothing
C8_NoMoveWithoutPanels ==
    [][(/\ mounted
        /\ count(children) <= 1
        /\ CallStep \/ NavStep \/ TouchStartStep \/ TouchMoveStep \/ TouchEndStep)
         => /\ state'.active = state.active
            /\ state'.offset = state.offset
            /\ children' = children
            /\ emits' = <<>>]_vars

\* a navigation or a gesture has run to its end on a single panel
C8_Witness ==
    /\ mounted
    /\ count(children) = 1
    /\ ~state.swiping
    /\ rafQueue = <<>>

-----------------------------------------------------------------------------
(* C9: resize() is idempotent *)

\* C9: from every reachable state, with the container measuring the same, a
\* second resize() leaves the track state (rect, width, height, offset, active,
\* swiping) and the panel offsets as the first resize() left them
C9_ResizeIdempotent ==
    mounted
        => LET r1 == resize(state, children, timerArmed, measured, hidden)
               r2 == resize(r1.state, r1.children, r1.timerArmed, measured, hidden)
           IN  /\ r2.state = r1.state
               /\ r2.children = r1.children

\* a loop track at rest in the overscan slot with panel 0 displaced: resize()
\* changes the track state and the panel offsets here
C9_Witness ==
    /\ Running /\ props.loop
    /\ state.active = count(children)
    /\ ~state.swiping
    /\ children[1] # 0
    /\ resize(state, children, timerArmed, measured, hidden).state # state
    /\ resize(state, children, timerArmed, measured, hidden).children # children

-----------------------------------------------------------------------------
(* C10: resize() keeps the normalized active index *)

\* C10 as stated: from every reachable state with at least one panel,
\* activeIndicator after resize() equals activeIndicator before it
C10_ResizeKeepsIndicator ==
    (mounted /\ count(children) >= 1)
        => LET r == resize(state, children, timerArmed, measured, hidden)
           IN  activeIndicator(r.state, r.children) = activeIndicator(state, children)

-----------------------------------------------------------------------------
(* C11: the autoplay timer fires next() once and re-arms; a touch start     *)
(* cancels it                                                               *)

\* the step was the firing of an autoplay timeout
TimerStep ==
    /\ Len(rafQueue') > Len(rafQueue)
    /\ rafQueue'[Len(rafQueue')].op = "autoplay"

\* C11: with autoplay > 0 and more than one panel, a firing of the timer
\* invokes next() exactly once (one callback joins the queue) and leaves
\* exactly one timer pending; a touch start on a touchable carousel leaves no
\* timer pending; and a timer-driven next() happens only in a state where
\* autoplayTimer is pending, so none happens after a touch start until
\* autoplay() has run again
C11_AutoplayFiresAndCancels ==
    [][/\ (TimerStep /\ props.autoplay > 0 /\ count(children) > 1)
            => /\ rafQueue' = Append(rafQueue, Callback("autoplay", 0, FALSE))
               /\ timerArmed'
               /\ strayTimers' = 0
       /\ (TouchStartStep /\ props.touchable)
            => /\ ~timerArmed'
               /\ strayTimers' = 0
       /\ TimerStep => timerArmed]_vars

\* the timer has fired and re-armed, and a touch start has then cancelled it
C11_Witness ==
    /\ Running /\ props.touchable /\ props.autoplay > 0
    /\ fingerDown
    /\ ~timerArmed
    /\ rafQueue # <<>>
    /\ Head(rafQueue).op = "autoplay"

-----------------------------------------------------------------------------
(* C12: autoplay is paused during a gesture *)

\* C12 as stated: on a touchable carousel with more than one panel, a deferred
\* step of a timer-driven next() that runs between a touch start and its touch
\* end leaves active, offset and swiping unchanged and notifies nothing
C12_AutoplayPausedDuringGesture ==
    [][(Running /\ props.touchable /\ fingerDown /\ fingerDown' /\ StepOf("autoplay"))
         => /\ state'.active = state.active
            /\ state'.offset = state.offset
            /\ state'.swiping = state.swiping
            /\ emits' = <<>>]_vars

-----------------------------------------------------------------------------
(* C13: a touch end clears swiping and re-arms the autoplay timer *)

\* C13 as stated: on a touchable carousel with autoplay > 0 and more than one
\* panel, every touch end leaves swiping false and the autoplay timer pending
C13_TouchEndRestartsAutoplay ==
    [][(Running /\ props.touchable /\ props.autoplay > 0 /\ ReleaseStep)
         => /\ ~state'.swiping
            /\ timerArmed']_vars

-----------------------------------------------------------------------------
(* C19: at most one autoplay timer *)

\* C19: in every reachable state no timeout is pending besides the one
\* autoplayTimer refers to, and none at all is pending while autoplay <= 0
C19_SingleTimer ==
    /\ strayTimers = 0
    /\ props.autoplay <= 0 => ~timerArmed

\* the timer is pending in the middle of a gesture (a re-initialization has
\* armed it again after the touch start) with a timer-driven next() waiting
C19_Witness ==
    /\ Running /\ props.touchable /\ props.autoplay > 0
    /\ fingerDown
    /\ timerArmed
    /\ rafQueue # <<>>
    /\ Head(rafQueue).op = "autoplay"

-----------------------------------------------------------------------------
(* C14: in loop mode the position correction precedes every animated move *)

\* C14 as stated: in loop mode with more than one panel, whenever the deferred
\* step of next(), prev() or swipeTo() runs, active is in [0, count) in the
\* state it starts from
C14_CorrectedBeforeStep ==
    [][(Running /\ props.loop /\ NavStep)
         => /\ 0 <= state.active
            /\ state.active < count(children)]_vars

-----------------------------------------------------------------------------
(* C15: what an initialization leaves *)

\* the track state st and the panel offsets kids are as C15 describes
Initialized(st, kids) ==
    /\ st.swiping
    /\ 0 <= st.active
    /\ st.active <= count(kids) - 1
    /\ st.offset = getTargetOffset(st, kids, st.active, 0)
    /\ \A i \in 1..count(kids) : kids[i] = 0

\* C15 as stated: with at least one panel, the mount leaves swiping true,
\* active in [0, count-1], offset = getTargetOffset(active) and every panel
\* offset 0, and so would resize() (the re-initialization with the current
\* active, which re-activation and a count change run too) after any step
C15_InitializeClamps ==
    [][/\ (~mounted /\ mounted' /\ count(children') >= 1)
            => Initialized(state', children')
       /\ (mounted' /\ count(children') >= 1)
            => LET r == resize(state', children', timerArmed', measured', hidden')
               IN  Initialized(r.state, r.children)]_vars

-----------------------------------------------------------------------------
(* C16: the loop edge panels cover the track *)

\* C16 as stated: in loop mode with more than one panel, in every reachable
\* state: offset < minOffset implies panel 0 is displaced by +trackSize,
\* offset > 0 implies the last panel is displaced by -trackSize, and a track
\* resting on panel 0 (on the last panel) has that panel undisplaced
C16_LoopEdgesCover ==
    (Running /\ props.loop)
        => LET n == count(children)
           IN  /\ state.offset < minOffset(state, children)
                    => children[1] = trackSize(state, children)
               /\ state.offset > 0
                    => children[n] = 0 - trackSize(state, children)
               /\ state.offset = 0 => children[1] = 0
               /\ (/\ state.offset = 0 - (n - 1) * size(state)
                   /\ state.offset >= minOffset(state, children))
                    => children[n] = 0

-----------------------------------------------------------------------------
(* C17, C18: gesture release *)

\* the touch end that the step is meets the commit condition: the gesture's
\* direction is the carousel's and it was fast or long enough
Commits ==
    /\ isCorrectDirection(touch)
    /\ shouldSwipe(state, touch, released'[1])

\* C17 as stated: a touch end changes active only if it commits; a touch end
\* that does not commit leaves active unchanged and, when delta is not 0,
\* puts offset at getTargetOffset(active) and notifies nothing; a touch move
\* whose direction is not the carousel's leaves offset unchanged
C17_ReleaseCommitsOrSnapsBack ==
    [][/\ (ReleaseStep /\ state'.active # state.active) => Commits
       /\ (ReleaseStep /\ ~Commits)
            => /\ state'.active = state.active
               /\ delta(touch) # 0
                    => /\ state'.offset = getTargetOffset(state, children, state.active, 0)
                       /\ emits' = <<>>
       /\ (TouchMoveStep /\ ~isCorrectDirection(touch'))
            => state'.offset = state.offset]_vars

\* where C18 puts active after a committing release from active
committedActive ==
    LET sign == IF delta(touch) > 0 THEN 1 ELSE -1
    IN  IF props.loop
        THEN state.active - sign
        ELSE range(state.active - sign * Ceil(Abs(delta(touch)), size(state)),
                   0, maxCount(state, children))

\* C18 as stated: a committing touch end that starts from active in
\* [0, count) moves active by one panel against the drag in loop mode, and to
\* clamp(active - sign(delta) * ceil(|delta| / size), 0, maxCount) otherwise
C18_CommittedPace ==
    [][(/\ Running /\ ReleaseStep /\ Commits
        /\ 0 <= state.active /\ state.active < count(children))
         => state'.active = committedActive]_vars

-----------------------------------------------------------------------------
(* C20: a change notification carries a new index *)

\* C20 as stated: with more than one panel, the index a step notifies differs
\* from activeIndicator in the state the step started from
C20_NotifiesNewIndex ==
    [][(Running /\ emits' # <<>>)
         => emits'[1] # activeIndicator(state, children)]_vars

====
